---------------------------- MODULE Spec2Model ----------------------------
(***************************************************************************)
(* A model of scrape.py, the ETL pipeline of Locktrace: main, the          *)
(* paginated fetch_features with its date -> year fallback, http_get_json  *)
(* with its retry loop, the in-memory sort and process_features.           *)
(*                                                                         *)
(* JSON values are dynamically typed.  A value is a record [t, n, s]:      *)
(*   t = "absent"  the key is not in the mapping                           *)
(*   t = "null"    JSON null (Python None)                                 *)
(*   t = "num"     a number, n its value                                   *)
(*   t = "numstr"  a string that is the decimal numeral of n               *)
(*   t = "str"     any other string, s its text; c its characters, one     *)
(*                 per element, for the strings the program slices         *)
(*   t = "obj"     a non-empty list or object                              *)
(* Coordinates are counted in units of 10^-7 degree, so that               *)
(* round(x, 6) is a real operation on them.                                *)
(***************************************************************************)
EXTENDS Integers, Sequences, FiniteSets, TLC

-----------------------------------------------------------------------------
(* Bounds of the model *)

\* Pages one filter candidate may accumulate before the modelled server
\* has to stop sending data.
MaxPages == 2

\* Length of the feature lists handed to process_features on its own.
MaxLen == 2

\* Length of the feature lists handed to the sort on its own.
MaxSortLen == 3

-----------------------------------------------------------------------------
(* Configuration, scrape.py section 1 *)

\* ENDPOINTS, in the order main iterates over it.
ENDPOINTS == <<"auto", "bike">>

\* PAGE_SIZE is 2000 in scrape.py; the model scales it down so that a full
\* page is a sequence TLC can enumerate.  Every use of it is the source's.
PAGE_SIZE == 2

MAX_RETRIES == 3

TIME_WINDOW_MONTHS == 6

FIELD_MAP ==
    [ id_fields    |-> <<"EVENT_UNIQUE_ID", "OBJECTID">>,
      date_field   |-> <<"OCC_DATE", "REPORT_DATE">>,
      year_field   |-> <<"OCC_YEAR">>,
      month_field  |-> <<"OCC_MONTH">>,
      day_field    |-> <<"OCC_DAY">>,
      hour_field   |-> <<"OCC_HOUR">>,
      lat_fields   |-> <<"LAT_WGS84", "Y">>,
      lng_fields   |-> <<"LONG_WGS84", "X">> ]

MonthNames ==
    <<"January", "February", "March", "April", "May", "June", "July",
      "August", "September", "October", "November", "December">>

\* MONTH_NAME_TO_NUM.get(name, default)
MONTH_NAME_TO_NUM(name, default) ==
    IF \E i \in 1..12 : MonthNames[i] = name
    THEN CHOOSE i \in 1..12 : MonthNames[i] = name
    ELSE default

-----------------------------------------------------------------------------
(* JSON values *)

Absent    == [t |-> "absent", n |-> 0, s |-> "", c |-> <<>>]
Null      == [t |-> "null",   n |-> 0, s |-> "", c |-> <<>>]
Num(x)    == [t |-> "num",    n |-> x, s |-> "", c |-> <<>>]
NumStr(x) == [t |-> "numstr", n |-> x, s |-> "", c |-> <<>>]
Str(x)    == [t |-> "str",    n |-> 0, s |-> x,  c |-> <<>>]
Obj       == [t |-> "obj",    n |-> 0, s |-> "", c |-> <<>>]

\* "".join(chars)
RECURSIVE Join(_)
Join(chars) == IF chars = <<>> THEN "" ELSE Head(chars) \o Join(Tail(chars))

\* A string given by its characters.
Text(chars) == [t |-> "str", n |-> 0, s |-> Join(chars), c |-> chars]

\* attrs.get(name) is None
IsNone(v) == v.t \in {"absent", "null"}

\* Python truthiness of a value
Truthy(v) ==
    CASE v.t \in {"absent", "null"} -> FALSE
      [] v.t = "num"                -> v.n # 0
      [] v.t = "str"                -> v.s # ""
      [] OTHER                      -> TRUE

\* float(v) and int(v) succeed on numbers and numerals, raise ValueError on
\* other strings and TypeError on None, lists and objects.
Coercible(v) == v.t \in {"num", "numstr"}

\* The decimal numeral of a natural number, str(n).
RECURSIVE Digits(_)
Digits(n) ==
    LET d == <<"0", "1", "2", "3", "4", "5", "6", "7", "8", "9">>
    IN  IF n < 10 THEN d[n + 1] ELSE Digits(n \div 10) \o d[(n % 10) + 1]

\* The characters of str(n) for an integer n.
RECURSIVE DigitChars(_)
DigitChars(n) ==
    LET d == <<"0", "1", "2", "3", "4", "5", "6", "7", "8", "9">>
    IN  IF n < 0 THEN <<"-">> \o DigitChars(-n)
        ELSE IF n < 10 THEN <<d[n + 1]>>
        ELSE DigitChars(n \div 10) \o <<d[(n % 10) + 1]>>

\* str(v) of an id value, as the f-string of the record id formats it
ToText(v) ==
    CASE v.t \in {"num", "numstr"} -> IF v.n < 0 THEN "-" \o Digits(-v.n)
                                      ELSE Digits(v.n)
      [] v.t = "str"               -> v.s
      [] v.t = "obj"               -> "[1]"
      [] OTHER                     -> "None"

\* The attribute keys a feature of the model carries.
AttrKeys ==
    { "EVENT_UNIQUE_ID", "OBJECTID", "OCC_DATE", "REPORT_DATE", "OCC_YEAR",
      "OCC_MONTH", "OCC_DAY", "OCC_HOUR", "LAT_WGS84", "Y", "LONG_WGS84",
      "X", "MCI_CATEGORY" }

NoAttrs == [k \in AttrKeys |-> Absent]

\* A raw feature: its attributes, its geometry (x and y absent when the
\* feature has no geometry or an empty one), and the request that returned it.
Feature(attrs, gx, gy) ==
    [attributes |-> attrs, geometry |-> [x |-> gx, y |-> gy], src |-> "none"]

-----------------------------------------------------------------------------
(* TRANSFORM, scrape.py section 5 *)

\* _first_of(attrs, field_names, default)
RECURSIVE _first_of(_, _, _)
_first_of(attrs, field_names, default) ==
    IF field_names = <<>> THEN default
    ELSE IF ~IsNone(attrs[Head(field_names)]) THEN attrs[Head(field_names)]
    ELSE _first_of(attrs, Tail(field_names), default)

\* parse_month(raw_month)
parse_month(raw_month) ==
    CASE raw_month.t = "num"              -> raw_month.n
      [] raw_month.t = "numstr"           -> 1
      [] raw_month.t = "str"              -> MONTH_NAME_TO_NUM(raw_month.s, 1)
      [] OTHER                            -> 1

\* The epoch-plausibility threshold of sort_key and parse_date_string.
EPOCH_THRESHOLD == 1000000000

\* isinstance(v, (int, float)) and v > 1_000_000_000
IsEpoch(v) == v.t = "num" /\ v.n > EPOCH_THRESHOLD

IsLeap(y) == (y % 4 = 0 /\ y % 100 # 0) \/ y % 400 = 0

DaysInYear(y) == IF IsLeap(y) THEN 366 ELSE 365

DaysInMonth(y, m) ==
    IF m = 2 THEN (IF IsLeap(y) THEN 29 ELSE 28)
    ELSE IF m \in {4, 6, 9, 11} THEN 30 ELSE 31

\* The calendar date that lies d days after the first day of month m of
\* year y.
RECURSIVE DateAfter(_, _, _)
DateAfter(y, m, d) ==
    IF m = 1 /\ d >= DaysInYear(y) THEN DateAfter(y + 1, 1, d - DaysInYear(y))
    ELSE IF d >= DaysInMonth(y, m) THEN DateAfter(y, m + 1, d - DaysInMonth(y, m))
    ELSE [year |-> y, month |-> m, day |-> d + 1]

\* datetime.utcfromtimestamp(raw_date / 1000.0), the date part
utcfromtimestamp_ms(ms) == DateAfter(1970, 1, ms \div (24 * 60 * 60 * 1000))

RECURSIVE PadTo(_, _)
PadTo(chars, w) == IF Len(chars) >= w THEN chars ELSE PadTo(<<"0">> \o chars, w)

\* f"{n:0wd}": zero padded to width w, the sign counted in the width.
Format0(n, w) ==
    IF n < 0 THEN <<"-">> \o PadTo(DigitChars(-n), w - 1)
    ELSE PadTo(DigitChars(n), w)

\* f"{y:04d}-{m:02d}-{d:02d}"
FormatDate(y, m, d) ==
    Format0(y, 4) \o <<"-">> \o Format0(m, 2) \o <<"-">> \o Format0(d, 2)

\* The characters of a string value, str being a str or a numeral.
CharsOf(v) ==
    CASE v.t = "str"    -> v.c
      [] v.t = "numstr" -> DigitChars(v.n)
      [] OTHER          -> <<>>

\* parse_date_string(raw_date, year, month, day), lines 301-319.  The numbers
\* of the model are within the range utcfromtimestamp accepts.
parse_date_string(raw_date, year, month, day, now_year) ==
    IF IsEpoch(raw_date)
    THEN LET dt == utcfromtimestamp_ms(raw_date.n)
         IN  FormatDate(dt.year, dt.month, dt.day)
    ELSE IF raw_date.t \in {"str", "numstr"} /\ Len(CharsOf(raw_date)) >= 10
    THEN SubSeq(CharsOf(raw_date), 1, 10)
    ELSE IF Coercible(year) /\ Coercible(day)
    THEN FormatDate(year.n, month, day.n)
    ELSE DigitChars(now_year) \o <<"-", "0", "1", "-", "0", "1">>

\* round(x, 6) on a coordinate counted in 10^-7 degree: to the nearest
\* multiple of 10, a tie to the even one.
Round6(x) ==
    LET q == x \div 10
        r == x % 10
    IN  IF r < 5 THEN 10 * q
        ELSE IF r > 5 THEN 10 * (q + 1)
        ELSE IF q % 2 = 0 THEN 10 * q ELSE 10 * (q + 1)

\* The bounding box of process_features, in 10^-7 degree.
LatMin == 410000000
LatMax == 570000000
LngMin == -950000000
LngMax == -730000000

\* Lines 343-356: the coordinates a feature resolves to.
ResolvedCoords(feature) ==
    LET attrs == feature.attributes
        gy    == feature.geometry.y
        gx    == feature.geometry.x
        fromAttrs == IsNone(gy) \/ IsNone(gx)
        lat1  == IF fromAttrs THEN _first_of(attrs, FIELD_MAP.lat_fields, Null) ELSE gy
        lng1  == IF fromAttrs THEN _first_of(attrs, FIELD_MAP.lng_fields, Null) ELSE gx
        ok(v) == IsNone(v) \/ Coercible(v)
        val(v) == IF IsNone(v) THEN 0 ELSE v.n
    IN  IF ok(lat1) /\ ok(lng1)
        THEN [lat |-> val(lat1), lng |-> val(lng1)]
        ELSE [lat |-> 0, lng |-> 0]

\* The test without its bounding box.
BadCoords_ZeroOnly(c) == c.lat = 0 /\ c.lng = 0

\* Lines 358-365: the test that discards a record for its coordinates.
BadCoords(c) ==
    \/ (c.lat = 0 /\ c.lng = 0)
    \/ ~(LatMin <= c.lat /\ c.lat <= LatMax /\ LngMin <= c.lng /\ c.lng <= LngMax)

\* int(v) if v else default, lines 393-396; raises when v is truthy and
\* not coercible.
IntOrRaises(v) == Truthy(v) /\ ~Coercible(v)
IntOr(v, default) == IF Truthy(v) THEN v.n ELSE default

\* The state of the loop of process_features.
ProcInit ==
    [clean_records |-> <<>>, discarded_coords |-> 0, discarded_other |-> 0,
     raised |-> FALSE]

\* Lines 381-386: the MCI_CATEGORY double check for auto thefts.  The model's
\* categories are the strings "Auto Theft" and others.
WrongCategory(attrs, theft_type) ==
    /\ theft_type = "auto"
    /\ Truthy(attrs["MCI_CATEGORY"])
    /\ ~(attrs["MCI_CATEGORY"].t = "str" /\ attrs["MCI_CATEGORY"].s = "Auto Theft")

\* One iteration of the loop of process_features, lines 337-402.
ProcessOne(st, feature, theft_type, now_year) ==
    LET attrs     == feature.attributes
        c         == ResolvedCoords(feature)
        record_id == _first_of(attrs, FIELD_MAP.id_fields,
                               NumStr(Len(st.clean_records)))
        year      == _first_of(attrs, FIELD_MAP.year_field, Num(now_year))
        raw_month == _first_of(attrs, FIELD_MAP.month_field, Num(1))
        day       == _first_of(attrs, FIELD_MAP.day_field, Num(1))
        hour      == _first_of(attrs, FIELD_MAP.hour_field, Num(12))
        raw_date  == _first_of(attrs, FIELD_MAP.date_field, Str(""))
        month     == parse_month(raw_month)
        date_str  == parse_date_string(raw_date, year, month, day, now_year)
    IN  IF st.raised THEN st
        ELSE IF BadCoords(c)
        THEN [st EXCEPT !.discarded_coords = @ + 1]
        ELSE IF WrongCategory(attrs, theft_type)
        THEN [st EXCEPT !.discarded_other = @ + 1]
        ELSE IF IntOrRaises(year) \/ IntOrRaises(day) \/ IntOrRaises(hour)
        THEN [st EXCEPT !.raised = TRUE]
        ELSE [st EXCEPT !.clean_records = Append(@,
                 [id    |-> theft_type \o "-" \o ToText(record_id),
                  type  |-> theft_type,
                  date  |-> date_str,
                  year  |-> IntOr(year, now_year),
                  month |-> month,
                  day   |-> IntOr(day, 1),
                  hour  |-> IntOr(hour, 0),
                  lat   |-> Round6(c.lat),
                  lng   |-> Round6(c.lng)])]

\* process_features(raw_features, theft_type): the loop over the features.
RECURSIVE ProcessFrom(_, _, _, _)
ProcessFrom(st, raw_features, theft_type, now_year) ==
    IF raw_features = <<>> THEN st
    ELSE ProcessFrom(ProcessOne(st, Head(raw_features), theft_type, now_year),
                     Tail(raw_features), theft_type, now_year)

process_features(raw_features, theft_type, now_year) ==
    ProcessFrom(ProcInit, raw_features, theft_type, now_year)

-----------------------------------------------------------------------------
(* The in-memory sort of fetch_features, lines 258-274 *)

\* A sort key is the negation of a number too wide for TLC's integers; the
\* number is kept as <<hi, lo>>, standing for hi * 10^6 + lo, 0 <= lo < 10^6.
Limb == 1000000

\* attrs.get(name, 0) or 0
GetOrZero(attrs, name) == IF Truthy(attrs[name]) THEN attrs[name] ELSE Num(0)

\* occ_date = attrs.get("OCC_DATE") or attrs.get("REPORT_DATE")
SortDate(attrs) ==
    IF Truthy(attrs["OCC_DATE"]) THEN attrs["OCC_DATE"] ELSE attrs["REPORT_DATE"]

\* month = attrs.get("OCC_MONTH", ""), then the name table for a string
SortMonth(attrs) ==
    LET m == attrs["OCC_MONTH"]
    IN  CASE m.t = "absent" -> Num(0)
          [] m.t = "str"    -> Num(MONTH_NAME_TO_NUM(m.s, 0))
          [] m.t = "numstr" -> Num(0)
          [] OTHER          -> m

\* sort_key raises TypeError: a None or a list multiplied and added to an int.
SortKeyRaises(feature) ==
    LET attrs == feature.attributes
    IN  /\ ~IsEpoch(SortDate(attrs))
        /\ \/ GetOrZero(attrs, "OCC_YEAR").t # "num"
           \/ SortMonth(attrs).t # "num"
           \/ GetOrZero(attrs, "OCC_DAY").t # "num"
           \/ GetOrZero(attrs, "OCC_HOUR").t # "num"

\* The magnitude of sort_key(feature), which returns its negation.
sort_key(feature) ==
    LET attrs == feature.attributes
        year  == GetOrZero(attrs, "OCC_YEAR").n
        month == SortMonth(attrs).n
        day   == GetOrZero(attrs, "OCC_DAY").n
        hour  == GetOrZero(attrs, "OCC_HOUR").n
        low   == day * 10000 + hour * 100
    IN  IF IsEpoch(SortDate(attrs))
        THEN <<SortDate(attrs).n \div Limb, SortDate(attrs).n % Limb>>
        ELSE <<year * 100 + month + (low \div Limb), low % Limb>>

\* A comparison that puts a feature before those of equal key.
KeyLE_Strict(a, b) == a[1] > b[1] \/ (a[1] = b[1] /\ a[2] > b[2])

\* -a <= -b for the magnitudes a and b
KeyLE(a, b) == a[1] > b[1] \/ (a[1] = b[1] /\ a[2] >= b[2])

\* list.sort is stable: x goes behind every element whose key is <= its own.
RECURSIVE InsertSorted(_, _)
InsertSorted(sorted, x) ==
    IF sorted = <<>> THEN <<x>>
    ELSE IF KeyLE(sort_key(Head(sorted)), sort_key(x))
         THEN <<Head(sorted)>> \o InsertSorted(Tail(sorted), x)
         ELSE <<x>> \o sorted

RECURSIVE SortFrom(_, _)
SortFrom(sorted, rest) ==
    IF rest = <<>> THEN sorted
    ELSE SortFrom(InsertSorted(sorted, Head(rest)), Tail(rest))

\* all_features.sort(key=sort_key)
SortFeatures(features) == SortFrom(<<>>, features)

SortRaises(features) ==
    \E i \in 1..Len(features) : SortKeyRaises(features[i])

-----------------------------------------------------------------------------
(* The features and the responses of the modelled server *)

\* 43.65 N, 79.38 W, in 10^-7 degree
TorontoLat == 4365 * 100000
TorontoLng == -7938 * 100000

\* An epoch timestamp above the plausibility threshold.
EpochDate == EPOCH_THRESHOLD + 700000000

\* A feature process_features accepts in both categories.
FGood ==
    Feature([NoAttrs EXCEPT !["EVENT_UNIQUE_ID"] = Str("GO-5"),
                            !["OCC_YEAR"] = Num(2025),
                            !["OCC_MONTH"] = Str("January"),
                            !["OCC_DAY"] = Num(15),
                            !["OCC_HOUR"] = Num(10),
                            !["MCI_CATEGORY"] = Str("Auto Theft")],
            Num(TorontoLng), Num(TorontoLat))

\* A later feature process_features accepts in both categories.
FRecent ==
    Feature([NoAttrs EXCEPT !["EVENT_UNIQUE_ID"] = Str("GO-6"),
                            !["OCC_YEAR"] = Num(2026),
                            !["OCC_MONTH"] = Str("October"),
                            !["OCC_DAY"] = Num(3),
                            !["OCC_HOUR"] = Num(22),
                            !["MCI_CATEGORY"] = Str("Auto Theft")],
            Num(TorontoLng), Num(TorontoLat))

\* A feature without coordinates: it resolves to (0, 0).
FZero ==
    Feature([NoAttrs EXCEPT !["OBJECTID"] = Num(7),
                            !["OCC_YEAR"] = Num(2023),
                            !["OCC_MONTH"] = Str("May")],
            Absent, Absent)

\* A feature whose OCC_DAY cannot be coerced: int(day) raises ValueError in
\* process_features; its epoch OCC_DATE keeps sort_key from touching the day.
FBadDay ==
    Feature([NoAttrs EXCEPT !["OBJECTID"] = Num(9),
                            !["OCC_DATE"] = Num(EpochDate),
                            !["OCC_DAY"] = Str("n/a")],
            Num(TorontoLng), Num(TorontoLat))

\* A feature whose OCC_MONTH is null: sort_key raises TypeError on it.
FNullMonth ==
    Feature([NoAttrs EXCEPT !["OBJECTID"] = Num(11),
                            !["OCC_YEAR"] = Num(2024),
                            !["OCC_MONTH"] = Null],
            Num(TorontoLng), Num(TorontoLat))

\* The features the modelled server draws its pages from.
RawPool == {FGood, FRecent, FZero, FBadDay, FNullMonth}

\* The pages the modelled server sends: up to n copies of one feature of S.
Pages(S, n) == {[i \in 1..k |-> f] : f \in S, k \in 0..n}

\* The full pages: n copies of one feature of S.
FullPages(S, n) == {[i \in 1..n |-> f] : f \in S}

\* What one attempt of http_get_json can meet: an HTTP body that parses as
\* JSON (with or without an embedded error object), a network error
\* (urllib.error.URLError / HTTPError), a timeout (socket.timeout, an OSError)
\* or a body json.loads rejects (json.JSONDecodeError, a ValueError).
Responses ==
    [kind : {"body"}, error : {FALSE},
     features : FullPages(RawPool, PAGE_SIZE) \cup Pages({FGood}, PAGE_SIZE),
     exceeded : BOOLEAN]
    \cup [kind : {"body"}, error : {TRUE}, features : Pages({FGood}, 1),
          exceeded : {FALSE}]
    \cup [kind : {"urlerror", "timeout", "badjson"}, error : {FALSE},
          features : {<<>>}, exceeded : {FALSE}]

-----------------------------------------------------------------------------
(* http_get_json, scrape.py section 3 *)

\* http_get_json without the check for an embedded error object.
HasError_Unchecked(data) == FALSE

\* Line 111: "error" in data
HasError(data) == data.error

\* What lines 102-116 do with one response: return the data, or raise.
AttemptOutcome(resp) ==
    CASE resp.kind = "urlerror" -> "URLError"
      [] resp.kind = "timeout"  -> "OSError"
      [] resp.kind = "badjson"  -> "ValueError"
      [] HasError(resp)         -> "RuntimeError"
      [] OTHER                  -> "return"

\* Line 118: the exceptions the retry loop catches.
CaughtExceptions == {"URLError", "HTTPError", "RuntimeError", "OSError"}

\* The retry test off by one: attempt <= MAX_RETRIES.
Retries_OffByOne(outcome, n) == outcome \in CaughtExceptions /\ n <= MAX_RETRIES

\* Lines 118-124: a caught failure is retried while attempt < MAX_RETRIES.
Retries(outcome, n) == outcome \in CaughtExceptions /\ n < MAX_RETRIES

-----------------------------------------------------------------------------
(* State *)

VARIABLES
    pc,             \* where main is: "main", "request", "fetched", "done"
    cat,            \* index into ENDPOINTS of the category being processed
    now_year,       \* datetime.utcnow().year
    strategy,       \* fetch_features: "date" or "year"
    offset,         \* fetch_features: resultOffset of the next request
    attempt,        \* http_get_json: the attempt about to be made
    all_features,   \* fetch_features: the accumulated features
    requests,       \* the failed attempts of the page being requested
    prev_call,      \* the request that ended the call before this page's
    last_resp,      \* the response to the last request
    tried,          \* the filter candidates queried for this category
    files,          \* per category: the output file
    ended,          \* per category: how its processing ended
    total_records,  \* main
    exit_status,    \* -1 while running, then the process exit status
    p_pc, p_raw, p_type, p_res,  \* process_features called on its own
    s_pc, s_raw, s_sorted        \* the sort called on its own

vars ==
    <<pc, cat, now_year, strategy, offset, attempt, all_features, requests,
      prev_call, last_resp, tried, files, ended, total_records, exit_status,
      p_pc, p_raw, p_type, p_res, s_pc, s_raw, s_sorted>>

fetchVars ==
    <<strategy, offset, attempt, all_features, requests, prev_call, last_resp,
      tried>>
mainVars  == <<files, ended, total_records, exit_status>>
sortVars  == <<s_pc, s_raw, s_sorted>>
procVars  == <<p_pc, p_raw, p_type, p_res, sortVars>>

Categories == {ENDPOINTS[i] : i \in 1..Len(ENDPOINTS)}

\* The years datetime.utcnow() may fall in.
UtcYears == {2025, 2026}

NoRequest ==
    [where |-> "none", offset |-> 0, attempt |-> 0, res |-> "none", count |-> 0]

NoResponse ==
    [kind |-> "none", error |-> FALSE, features |-> <<>>, exceeded |-> FALSE]

\* fetch_features starting on the fallback filter.
FirstStrategy_Year == "year"

\* Lines 177-178: the filter fetch_features starts with.
FirstStrategy == "date"

\* Lines 225-226: the filter the exception handler falls back to.
FallbackStrategy == "year"

NoFile == [written |-> FALSE, records |-> <<>>]

PipelineInit ==
    /\ pc = "main"
    /\ cat = 1
    /\ now_year = 2026
    /\ strategy = FirstStrategy
    /\ offset = 0
    /\ attempt = 1
    /\ all_features = <<>>
    /\ requests = <<>>
    /\ prev_call = NoRequest
    /\ last_resp = NoResponse
    /\ tried = <<>>
    /\ files = [c \in Categories |-> NoFile]
    /\ ended = [c \in Categories |-> "no"]
    /\ total_records = 0
    /\ exit_status = -1

\* No call of process_features on its own.
ProcIdle ==
    /\ p_pc = "idle"
    /\ p_raw = <<>>
    /\ p_type = "auto"
    /\ p_res = ProcInit

\* No call of the sort on its own.
SortIdle ==
    /\ s_pc = "idle"
    /\ s_raw = <<>>
    /\ s_sorted = <<>>

Init ==
    /\ PipelineInit
    /\ ProcIdle
    /\ SortIdle

-----------------------------------------------------------------------------
(* main and fetch_features *)

theft_type == ENDPOINTS[cat]

\* save_json(records, filename): the file is overwritten in full.
save_json(records, c) == [files EXCEPT ![c] = [written |-> TRUE, records |-> records]]

\* fetch_features has returned or raised: its locals are gone.
FetchLocalsGone ==
    /\ strategy' = FirstStrategy
    /\ offset' = 0
    /\ attempt' = 1
    /\ all_features' = <<>>
    /\ requests' = <<>>
    /\ prev_call' = NoRequest
    /\ UNCHANGED tried

\* Lines 437-442 and 176-188: main enters the loop body for the next
\* category and fetch_features starts on the date filter.
StartCategory ==
    /\ pc = "main"
    /\ cat <= Len(ENDPOINTS)
    /\ pc' = "request"
    /\ strategy' = FirstStrategy
    /\ tried' = <<FirstStrategy>>
    /\ all_features' = <<>>
    /\ offset' = 0
    /\ attempt' = 1
    /\ requests' = <<>>
    /\ prev_call' = NoRequest
    /\ last_resp' = NoResponse
    /\ UNCHANGED <<cat, now_year, mainVars, procVars>>

\* The request of this attempt, as the server sees it: its filter and
\* offset, whether it returned data ("ok", with the number of features) or
\* failed ("fail", with the number of the attempt).
Request(res, n) ==
    [where |-> strategy, offset |-> offset,
     attempt |-> IF res = "fail" THEN attempt ELSE 0, res |-> res, count |-> n]

\* The offset advanced by the records received: offset += count.
NextOffset_ByCount(off, count) == off + count

\* Lines 214 and 251: offset += PAGE_SIZE
NextOffset(off, count) == off + PAGE_SIZE

\* Tag a page's features with the filter that returned them.
Tagged(features) == [i \in 1..Len(features) |-> [features[i] EXCEPT !.src = strategy]]

\* The model stops the server from sending data once a candidate holds
\* MaxPages pages.
MayCarryData == offset < MaxPages * PAGE_SIZE

\* Lines 218 and 253: the server signals that no more data is available.
NoMoreData(data, count) == ~data.exceeded /\ count < PAGE_SIZE

\* Lines 205-219 and 242-254: http_get_json returns data and the loop body
\* consumes the page.
PageReturned(resp) ==
    LET count == Len(resp.features)
    IN  /\ pc = "request"
        /\ AttemptOutcome(resp) = "return"
        /\ count > 0 => MayCarryData
        /\ last_resp' = resp
        /\ attempt' = 1
        /\ IF count = 0
           THEN /\ pc' = "fetched"
                /\ UNCHANGED <<all_features, offset>>
           ELSE /\ all_features' = all_features \o Tagged(resp.features)
                /\ offset' = NextOffset(offset, count)
                /\ pc' = IF NoMoreData(resp, count) THEN "fetched" ELSE "request"
        /\ requests' = <<>>
        /\ prev_call' = IF pc' = "request" THEN Request("ok", count) ELSE prev_call
        /\ UNCHANGED <<cat, now_year, strategy, tried, mainVars, procVars>>

\* Lines 118-122: the attempt fails, the failure is caught and the same page
\* is requested again.
AttemptRetried(resp) ==
    /\ pc = "request"
    /\ AttemptOutcome(resp) # "return"
    /\ Retries(AttemptOutcome(resp), attempt)
    /\ requests' = Append(requests, Request("fail", 0))
    /\ last_resp' = resp
    /\ attempt' = attempt + 1
    /\ UNCHANGED <<pc, cat, now_year, strategy, offset, all_features, prev_call,
                   tried, mainVars, procVars>>

\* A handler that re-raises whatever the strategy.
FallsBack_Never(s) == FALSE

\* A handler that falls back whatever the strategy.
FallsBack_Always(s) == TRUE

\* A fallback that keeps what the date filter accumulated.
Discarded_Kept(features) == features

\* Line 228: all_features = []
Discarded(features) == <<>>

\* Line 222: the exception handler of fetch_features falls back to the year
\* filter when the failed strategy is the date filter.
FallsBack(s) == s = "date"

\* An exception handler of main that writes nothing.
WriteEmpty_Nothing(c) == files

\* Line 454: save_json([], filename) in the exception handler of main
WriteEmpty(c) == save_json(<<>>, c)

\* Lines 221-229: http_get_json raises out of the date candidate's loop;
\* fetch_features starts over on the year filter.
DateCandidateFails(resp) ==
    /\ pc = "request"
    /\ AttemptOutcome(resp) # "return"
    /\ ~Retries(AttemptOutcome(resp), attempt)
    /\ FallsBack(strategy)
    /\ requests' = <<>>
    /\ prev_call' = Request("fail", 0)
    /\ last_resp' = resp
    /\ strategy' = FallbackStrategy
    /\ tried' = Append(tried, FallbackStrategy)
    /\ all_features' = Discarded(all_features)
    /\ offset' = 0
    /\ attempt' = 1
    /\ UNCHANGED <<pc, cat, now_year, mainVars, procVars>>

\* Lines 242, 451-454: http_get_json raises inside the handler of
\* fetch_features; the exception leaves fetch_features and main writes the
\* category's file empty.
FetchFails(resp) ==
    /\ pc = "request"
    /\ AttemptOutcome(resp) # "return"
    /\ ~Retries(AttemptOutcome(resp), attempt)
    /\ ~FallsBack(strategy)
    /\ FetchLocalsGone
    /\ last_resp' = resp
    /\ files' = WriteEmpty(theft_type)
    /\ ended' = [ended EXCEPT ![theft_type] = "fetch_error"]
    /\ pc' = "main"
    /\ cat' = cat + 1
    /\ UNCHANGED <<now_year, total_records, exit_status, procVars>>

\* Lines 274-277 and 445-449: the pagination is over; the features are
\* sorted, transformed and saved.
CategoryLoaded ==
    LET raw_features == SortFeatures(all_features)
        res          == process_features(raw_features, theft_type, now_year)
    IN  /\ pc = "fetched"
        /\ ~SortRaises(all_features)
        /\ ~res.raised
        /\ files' = save_json(res.clean_records, theft_type)
        /\ total_records' = total_records + Len(res.clean_records)
        /\ ended' = [ended EXCEPT ![theft_type] = "saved"]
        /\ pc' = "main"
        /\ cat' = cat + 1
        /\ FetchLocalsGone
        /\ last_resp' = NoResponse
        /\ UNCHANGED <<now_year, exit_status, procVars>>

\* Lines 274, 445 and 451-454: sort_key or process_features raises; main
\* writes the category's file empty.
CategoryFails ==
    /\ pc = "fetched"
    /\ \/ SortRaises(all_features)
       \/ process_features(SortFeatures(all_features), theft_type, now_year).raised
    /\ files' = WriteEmpty(theft_type)
    /\ ended' = [ended EXCEPT ![theft_type] =
                    IF SortRaises(all_features) THEN "sort_error"
                    ELSE "transform_error"]
    /\ pc' = "main"
    /\ cat' = cat + 1
    /\ FetchLocalsGone
    /\ last_resp' = NoResponse
    /\ UNCHANGED <<now_year, total_records, exit_status, procVars>>

\* An exit status that ignores the total.
ExitStatus_AlwaysZero(total) == 0

\* Lines 465-470 and 474: the loop is over; the exit status.
ExitStatus(total) == IF total = 0 THEN 1 ELSE 0

Finish ==
    /\ pc = "main"
    /\ cat > Len(ENDPOINTS)
    /\ exit_status' = ExitStatus(total_records)
    /\ pc' = "done"
    /\ UNCHANGED <<cat, now_year, fetchVars, files, ended, total_records,
                   procVars>>

Next ==
    \/ StartCategory
    \/ \E resp \in Responses : PageReturned(resp)
    \/ \E resp \in Responses : AttemptRetried(resp)
    \/ \E resp \in Responses : DateCandidateFails(resp)
    \/ \E resp \in Responses : FetchFails(resp)
    \/ CategoryLoaded
    \/ CategoryFails
    \/ Finish

Spec == Init /\ [][Next]_vars

-----------------------------------------------------------------------------
(* process_features called on bounded lists of raw features *)

\* A feature that carries nothing but coordinates: geometry x and y, and the
\* attributes LAT_WGS84, Y, LONG_WGS84 and X.
CoordFeature(gx, gy, lat, y, lng, x) ==
    Feature([NoAttrs EXCEPT !["LAT_WGS84"] = lat, !["Y"] = y,
                            !["LONG_WGS84"] = lng, !["X"] = x], gx, gy)

FromGeometry(gx, gy) == CoordFeature(gx, gy, Absent, Absent, Absent, Absent)

CoordFeatures ==
    { FromGeometry(Num(TorontoLng), Num(TorontoLat)),
      FromGeometry(Num(0), Num(0)),
      FromGeometry(Num(TorontoLng), Num(0)),
      FromGeometry(Num(LngMax), Num(LatMax)),
      FromGeometry(Num(TorontoLng), Num(LatMax + 4)),
      FromGeometry(Num(TorontoLng), Num(LatMin - 4)),
      FromGeometry(Num(LngMax + 4), Num(TorontoLat)),
      FromGeometry(Num(TorontoLng + 6), Num(TorontoLat + 5)),
      FromGeometry(Num(TorontoLng), Str("n/a")),
      FromGeometry(Obj, Num(TorontoLat)),
      CoordFeature(Absent, Absent, Num(TorontoLat), Absent, Num(TorontoLng), Absent),
      CoordFeature(Absent, Absent, Null, Num(LatMin), Null, Num(LngMin)),
      CoordFeature(Absent, Num(LatMax + 4), NumStr(TorontoLat + 15), Absent,
                   NumStr(TorontoLng), Absent),
      CoordFeature(Absent, Absent, Absent, Absent, Absent, Absent) }

\* Sequences over S of length 0..n
SeqsUpTo(S, n) == UNION {[1..k -> S] : k \in 0..n}

InitProcess ==
    /\ PipelineInit
    /\ p_pc = "called"
    /\ p_raw \in SeqsUpTo(CoordFeatures, MaxLen)
    /\ p_type \in Categories
    /\ p_res = ProcInit
    /\ SortIdle

\* process_features(raw_features, theft_type) runs to its return or raises.
ProcessFeaturesRuns ==
    /\ p_pc = "called"
    /\ p_res' = process_features(p_raw, p_type, now_year)
    /\ p_pc' = IF p_res'.raised THEN "raised" ELSE "returned"
    /\ UNCHANGED <<pc, cat, now_year, fetchVars, mainVars, p_raw, p_type,
                   sortVars>>

NextProcess == ProcessFeaturesRuns

SpecProcess == InitProcess /\ [][NextProcess]_vars

\* A feature at valid coordinates with the given attributes.
Located(attrs) == Feature(attrs, Num(TorontoLng), Num(TorontoLat))

\* The attributes of a complete row.
RowAttrs ==
    [NoAttrs EXCEPT !["EVENT_UNIQUE_ID"] = Str("GO-5"),
                    !["OCC_YEAR"] = Num(2025),
                    !["OCC_MONTH"] = Str("January"),
                    !["OCC_DAY"] = Num(15),
                    !["OCC_HOUR"] = Num(10)]

\* Features at valid coordinates whose id, date, year, month, day and hour
\* attributes take the shapes the transform distinguishes.
FieldFeatures ==
    { Located(RowAttrs),
      \* ids: a second row of the same event, no id, OBJECTID 0
      Located([RowAttrs EXCEPT !["OCC_YEAR"] = Num(2026),
                               !["OCC_MONTH"] = Str("October")]),
      Located([RowAttrs EXCEPT !["EVENT_UNIQUE_ID"] = Absent]),
      Located([RowAttrs EXCEPT !["EVENT_UNIQUE_ID"] = Null,
                               !["OBJECTID"] = Num(0)]),
      \* months
      Located([RowAttrs EXCEPT !["OCC_MONTH"] = Num(13)]),
      Located([RowAttrs EXCEPT !["OCC_MONTH"] = Num(0)]),
      Located([RowAttrs EXCEPT !["OCC_MONTH"] = NumStr(7)]),
      Located([RowAttrs EXCEPT !["OCC_MONTH"] = Str("march")]),
      Located([RowAttrs EXCEPT !["OCC_MONTH"] = Null]),
      Located([RowAttrs EXCEPT !["OCC_MONTH"] = Obj]),
      \* dates
      Located([RowAttrs EXCEPT !["OCC_MONTH"] = Str("February"),
                               !["OCC_DAY"] = Num(30)]),
      Located([RowAttrs EXCEPT !["OCC_DATE"] = Num(EpochDate)]),
      Located([RowAttrs EXCEPT !["REPORT_DATE"] =
                  Text(<<"2", "0", "2", "5", "-", "0", "1", "-", "1", "5",
                         "T", "1", "0", ":", "0", "0">>)]),
      Located([RowAttrs EXCEPT !["OCC_DATE"] =
                  Text(<<"N", "o", "t", " ", "a", "v", "a", "i", "l", "a",
                         "b", "l", "e">>)]),
      Located([RowAttrs EXCEPT !["OCC_DATE"] = NumStr(EpochDate)]),
      \* year, day and hour
      Located([RowAttrs EXCEPT !["OCC_DAY"] = Str("n/a")]),
      Located([RowAttrs EXCEPT !["OCC_YEAR"] = Str("unknown")]),
      Located([RowAttrs EXCEPT !["OCC_HOUR"] = Obj]),
      Located([RowAttrs EXCEPT !["OCC_YEAR"] = Null, !["OCC_DAY"] = Null,
                               !["OCC_HOUR"] = Null]),
      Located([RowAttrs EXCEPT !["OCC_YEAR"] = NumStr(2025),
                               !["OCC_HOUR"] = Num(0)]),
      Located(NoAttrs) }

InitFields ==
    /\ PipelineInit
    /\ p_pc = "called"
    /\ p_raw \in SeqsUpTo(FieldFeatures, MaxLen)
    /\ p_type \in Categories
    /\ p_res = ProcInit
    /\ SortIdle

SpecFields == InitFields /\ [][NextProcess]_vars

-----------------------------------------------------------------------------
(* The sort of fetch_features called on bounded lists of features *)

\* A feature with the given OBJECTID and date attributes.
Dated(id, occ_date, year, month, day, hour) ==
    Located([NoAttrs EXCEPT !["OBJECTID"] = Num(id),
                            !["OCC_DATE"] = occ_date,
                            !["OCC_YEAR"] = year,
                            !["OCC_MONTH"] = month,
                            !["OCC_DAY"] = day,
                            !["OCC_HOUR"] = hour])

\* Features whose date attributes take the shapes sort_key distinguishes.
SortFeaturesPool ==
    { Dated(1, Absent, Num(2025), Str("January"), Num(15), Num(10)),
      \* the same instant in another row
      Dated(2, Absent, Num(2025), Str("January"), Num(15), Num(10)),
      Dated(3, Num(EpochDate), Num(2025), Str("January"), Num(15), Num(10)),
      Dated(4, Absent, Num(2026), Str("October"), Num(1), Num(0)),
      Dated(5, Absent, Absent, Absent, Absent, Absent),
      Dated(6, Absent, Num(2025), Num(3), Num(150), Num(23)),
      Dated(7, Absent, Num(2025), Null, Num(15), Num(10)),
      Dated(8, Null, Null, Str("May"), Null, Null),
      Dated(9, Absent, NumStr(2025), Str("January"), Num(15), Num(10)) }

InitSort ==
    /\ PipelineInit
    /\ ProcIdle
    /\ s_pc = "called"
    /\ s_raw \in SeqsUpTo(SortFeaturesPool, MaxSortLen)
    /\ s_sorted = <<>>

\* Line 274: all_features.sort(key=sort_key) returns or raises.
SortRuns ==
    /\ s_pc = "called"
    /\ IF SortRaises(s_raw)
       THEN s_pc' = "raised" /\ s_sorted' = s_raw
       ELSE s_pc' = "sorted" /\ s_sorted' = SortFeatures(s_raw)
    /\ UNCHANGED <<pc, cat, now_year, fetchVars, mainVars, p_pc, p_raw,
                   p_type, p_res, s_raw>>

NextSort == SortRuns

SpecSort == InitSort /\ [][NextSort]_vars

-----------------------------------------------------------------------------
(* Claims *)

\* The coordinates (0, 0), or a point outside the box [41, 57] x [-95, -73].
RejectedPoint(c) ==
    \/ (c.lat = 0 /\ c.lng = 0)
    \/ c.lat < LatMin \/ c.lat > LatMax \/ c.lng < LngMin \/ c.lng > LngMax

Rejected(feature) == RejectedPoint(ResolvedCoords(feature))

\* C10: every record process_features emits has 41 <= lat <= 57 and
\* -95 <= lng <= -73 and is not at (0, 0); every input whose resolved
\* coordinates are (0, 0) or outside the box is dropped and counted in
\* discarded_coords; dropping raises nothing and leaves the records of the
\* other inputs as they are without the dropped inputs.
C10_CoordinatesInBox ==
    p_pc # "called" =>
        /\ p_pc = "returned"
        /\ \A i \in 1..Len(p_res.clean_records) :
              LET r == p_res.clean_records[i]
              IN  /\ LatMin <= r.lat /\ r.lat <= LatMax
                  /\ LngMin <= r.lng /\ r.lng <= LngMax
                  /\ ~(r.lat = 0 /\ r.lng = 0)
        /\ p_res.discarded_coords =
              Cardinality({i \in 1..Len(p_raw) : Rejected(p_raw[i])})
        /\ Len(p_res.clean_records) =
              Cardinality({i \in 1..Len(p_raw) : ~Rejected(p_raw[i])})
        /\ p_res.clean_records =
              process_features(SelectSeq(p_raw, LAMBDA f : ~Rejected(f)),
                               p_type, now_year).clean_records

\* C10's case: a list with a feature at (0, 0) or outside the box and a
\* feature inside it has been processed.
C10_Witness ==
    /\ p_pc = "returned"
    /\ Len(p_raw) = 2
    /\ Rejected(p_raw[1])
    /\ ResolvedCoords(p_raw[1]).lat > LatMax
    /\ ~Rejected(p_raw[2])
    /\ Len(p_res.clean_records) = 1
    /\ p_res.discarded_coords = 1

\* C11 as claimed: every record process_features emits has a month from 1
\* to 12, whatever the raw OCC_MONTH is.
C11_MonthInRange ==
    p_pc = "returned" =>
        \A i \in 1..Len(p_res.clean_records) :
            p_res.clean_records[i].month \in 1..12

IsDigit(ch) == ch \in {"0", "1", "2", "3", "4", "5", "6", "7", "8", "9"}

DigitValue(ch) ==
    CHOOSE k \in 0..9 :
        <<"0", "1", "2", "3", "4", "5", "6", "7", "8", "9">>[k + 1] = ch

\* The number a sequence of digits denotes.
RECURSIVE NumberOf(_)
NumberOf(chars) ==
    IF chars = <<>> THEN 0
    ELSE 10 * NumberOf(SubSeq(chars, 1, Len(chars) - 1))
         + DigitValue(chars[Len(chars)])

\* The text has the form YYYY-MM-DD and names a day of the calendar.
ValidDate(chars) ==
    /\ Len(chars) = 10
    /\ chars[5] = "-" /\ chars[8] = "-"
    /\ \A k \in {1, 2, 3, 4, 6, 7, 9, 10} : IsDigit(chars[k])
    /\ LET y == NumberOf(SubSeq(chars, 1, 4))
           m == NumberOf(SubSeq(chars, 6, 7))
           d == NumberOf(SubSeq(chars, 9, 10))
       IN  y >= 1 /\ m \in 1..12 /\ d \in 1..DaysInMonth(y, m)

\* C12 as claimed: every record process_features emits has a date of the
\* form YYYY-MM-DD that denotes a calendar-valid day, whichever branch of
\* parse_date_string produced it.
C12_DateValid ==
    p_pc = "returned" =>
        \A i \in 1..Len(p_res.clean_records) :
            ValidDate(p_res.clean_records[i].date)

\* C13 as claimed: process_features never emits two records with the same
\* id.
C13_IdsDistinct ==
    p_pc = "returned" =>
        \A i, j \in 1..Len(p_res.clean_records) :
            i # j => p_res.clean_records[i].id # p_res.clean_records[j].id

\* C14 as claimed: a year, day or hour that cannot be coerced to an integer
\* does not make process_features raise, and every feature is either
\* emitted or counted as discarded.
C14_CoercionFailureDefaults ==
    p_pc # "called" =>
        /\ p_pc = "returned"
        /\ Len(p_res.clean_records) + p_res.discarded_coords
              + p_res.discarded_other = Len(p_raw)

\* The features of a list that have a given sort key, in the list's order.
WithKey(features, k) == SelectSeq(features, LAMBDA f : sort_key(f) = k)

KeysOf(features) == {sort_key(features[i]) : i \in 1..Len(features)}

\* C15: the sort orders the features by non-decreasing sort key, keeps the
\* input's relative order among features of equal key, and sorting its
\* result again changes nothing.
C15_SortStableIdempotent ==
    s_pc = "sorted" =>
        /\ Len(s_sorted) = Len(s_raw)
        /\ \A i \in 1..(Len(s_sorted) - 1) :
              KeyLE_Strict(sort_key(s_sorted[i]), sort_key(s_sorted[i + 1]))
              \/ sort_key(s_sorted[i]) = sort_key(s_sorted[i + 1])
        /\ \A k \in KeysOf(s_raw) : WithKey(s_sorted, k) = WithKey(s_raw, k)
        /\ SortFeatures(s_sorted) = s_sorted
        /\ SortFeatures(SortFeatures(s_raw)) = SortFeatures(s_raw)

\* C15's case: two different rows of equal key and an older row in front of
\* them have been sorted; the rows of equal key kept their order.
C15_Witness ==
    /\ s_pc = "sorted"
    /\ Len(s_raw) = 3
    /\ sort_key(s_raw[2]) = sort_key(s_raw[3])
    /\ s_raw[2] # s_raw[3]
    /\ sort_key(s_raw[1]) # sort_key(s_raw[2])
    /\ s_sorted = <<s_raw[2], s_raw[3], s_raw[1]>>

\* C18 as claimed: the sort computes a key for every feature and returns a
\* list of the input's length, whatever attributes are absent or null.
C18_SortTotal ==
    s_pc # "called" => (s_pc = "sorted" /\ Len(s_sorted) = Len(s_raw))

\* The category main has just finished, when there is one.
JustEnded == ENDPOINTS[cat - 1]

Failures == {"fetch_error", "sort_error", "transform_error"}

\* C1: every category's output file is written by the end of the run,
\* whatever happens in the other category: a category whose fetch, sort or
\* transform raised has its file written as an empty array, and main goes on
\* to the next category.
C1_EveryFileWritten ==
    /\ \A i \in 1..Len(ENDPOINTS) :
          i < cat => files[ENDPOINTS[i]].written /\ ended[ENDPOINTS[i]] # "no"
    /\ \A c \in Categories :
          ended[c] \in Failures => files[c].written /\ files[c].records = <<>>
    /\ pc = "done" => cat = Len(ENDPOINTS) + 1

\* C1's case: the first category's transform raised, the second category was
\* still fetched, transformed and written with records.
C1_Witness ==
    /\ pc = "done"
    /\ ended["auto"] = "transform_error"
    /\ files["auto"] = [written |-> TRUE, records |-> <<>>]
    /\ ended["bike"] = "saved"
    /\ files["bike"].records # <<>>

\* The records written across all categories.
RECURSIVE WrittenUpTo(_)
WrittenUpTo(i) ==
    IF i = 0 THEN 0 ELSE Len(files[ENDPOINTS[i]].records) + WrittenUpTo(i - 1)

TotalWritten == WrittenUpTo(Len(ENDPOINTS))

\* C2: after all categories the run ends with a failure status exactly when
\* the records written across all categories are zero, and with success when
\* there is at least one; a failed category contributes zero.
C2_ExitStatus ==
    /\ pc # "done" => exit_status = -1
    /\ pc = "done" => /\ exit_status \in {0, 1}
                      /\ exit_status = 1 <=> TotalWritten = 0
                      /\ exit_status = 0 <=> TotalWritten > 0
    /\ \A c \in Categories : ended[c] \in Failures => Len(files[c].records) = 0

\* C2's case: both categories end without an exception, features were
\* fetched, and no record was written: the run fails.
C2_Witness ==
    /\ pc = "done"
    /\ exit_status = 1
    /\ ended["auto"] = "saved"
    /\ ended["bike"] = "saved"

\* A response that is a failed attempt: no body, a body that does not parse,
\* or a body with an embedded error object.
Failed(resp) == resp.kind \in {"urlerror", "timeout", "badjson"} \/
                (resp.kind = "body" /\ resp.error)

\* A response http_get_json hands to the pagination loop as data.
IsData(resp) == resp.kind = "body" /\ ~resp.error

TagWith(features, s) == [i \in 1..Len(features) |-> [features[i] EXCEPT !.src = s]]

\* C3: when every request of the date candidate has failed and the last one
\* fails beyond the retry bound, fetch_features queries the year candidate
\* from offset 0 with nothing accumulated, and no exception leaves it (the
\* category is not ended, no file written); the pages the year candidate
\* then obtains are what fetch_features accumulates and returns.
C3_DateFailureFallsBackToYear ==
    [][ /\ ( /\ pc = "request" /\ strategy = "date" /\ offset = 0
             /\ attempt = MAX_RETRIES /\ ~IsData(last_resp') )
           => /\ pc' = "request" /\ strategy' = "year" /\ offset' = 0
              /\ attempt' = 1 /\ all_features' = <<>>
              /\ files' = files /\ ended' = ended /\ cat' = cat
        /\ ( /\ pc = "request" /\ strategy = "year" /\ IsData(last_resp') )
           => /\ all_features' = all_features \o TagWith(last_resp'.features, "year")
              /\ pc' \in {"request", "fetched"}
              /\ ended' = ended
      ]_vars

\* C3's case: the date candidate failed MAX_RETRIES times at offset 0 and
\* the year candidate's pagination has ended with features.
C3_Witness ==
    /\ pc = "fetched"
    /\ strategy = "year"
    /\ prev_call = [where |-> "date", offset |-> 0, attempt |-> MAX_RETRIES,
                    res |-> "fail", count |-> 0]
    /\ all_features # <<>>
    /\ \A i \in 1..Len(all_features) : all_features[i].src = "year"

C5_BoundedRetries ==
    /\ Len(requests) <= MAX_RETRIES
    /\ \A i \in 1..Len(requests) :
          /\ requests[i].where = requests[1].where
          /\ requests[i].offset = requests[1].offset
          /\ requests[i].attempt = i
          /\ requests[i].res = "fail"
    /\ pc = "request" =>
          /\ attempt = Len(requests) + 1
          /\ attempt <= MAX_RETRIES
          /\ Len(requests) < MAX_RETRIES
          /\ \A i \in 1..Len(requests) :
                /\ requests[i].where = strategy
                /\ requests[i].offset = offset
    /\ prev_call.attempt <= MAX_RETRIES
    /\ (pc \in {"request", "fetched"} /\ prev_call.res = "fail")
          => prev_call.where # strategy

\* C5's case: the date candidate's request escalated after MAX_RETRIES
\* attempts and the year candidate's first request has failed twice.
C5_Witness ==
    /\ pc = "request"
    /\ strategy = "year"
    /\ prev_call.res = "fail"
    /\ prev_call.attempt = MAX_RETRIES
    /\ Len(requests) = MAX_RETRIES - 1

\* C6 as claimed: a failed attempt of any kind (network error, timeout,
\* malformed JSON body, embedded error object) made before the MAX_RETRIES-th
\* is followed by another attempt of the same page.
C6_EveryTransientFailureRetried ==
    [][ ( /\ pc = "request" /\ attempt < MAX_RETRIES /\ Failed(last_resp') )
          => /\ pc' = "request" /\ strategy' = strategy /\ offset' = offset
             /\ attempt' = attempt + 1
      ]_vars

\* Any cap the model's server can reach; scrape.py names none.
SafetyCap == MaxPages * PAGE_SIZE

\* C7 as claimed: once the accumulated records reach the safety cap, no
\* further page is requested.
C7_HardSafetyCap == Len(all_features) >= SafetyCap => pc # "request"

\* C8 as claimed: within a category the offsets the server sees never
\* decrease from one request to the next.
C8_OffsetsMonotoneInCategory ==
    (prev_call # NoRequest /\ requests # <<>>)
        => prev_call.offset <= requests[1].offset

\* C8 amended: within one filter candidate the first offset is 0, a request
\* repeats the offset of a failed attempt, and a request's offset exceeds the
\* previous one by exactly PAGE_SIZE after a page that was received and
\* accumulated; the offset goes back to 0 only when the candidate changes.
C8_OffsetsPerCandidate ==
    /\ \A i \in 1..Len(requests) :
          /\ requests[i].offset = requests[1].offset
          /\ requests[i].where = requests[1].where
          /\ requests[i].res = "fail"
    /\ requests # <<>> =>
          IF prev_call = NoRequest
          THEN requests[1].offset = 0 /\ requests[1].where = "date"
          ELSE IF prev_call.where = requests[1].where
          THEN /\ prev_call.res = "ok" /\ prev_call.count > 0
               /\ requests[1].offset = prev_call.offset + PAGE_SIZE
          ELSE /\ prev_call.res = "fail"
               /\ requests[1].offset = 0
    /\ pc = "request" =>
          /\ offset = IF prev_call.where = strategy
                      THEN prev_call.offset + PAGE_SIZE ELSE 0
          /\ offset % PAGE_SIZE = 0
          /\ offset \div PAGE_SIZE <= Len(all_features)
          /\ Len(all_features) <= offset
          /\ prev_call.where = strategy => Len(all_features) >= prev_call.count

\* C8's case: the second page was received and accumulated and the third
\* request has been made.
C8_Witness ==
    /\ pc = "request"
    /\ prev_call.res = "ok"
    /\ prev_call.offset = PAGE_SIZE
    /\ requests # <<>>
    /\ requests[1].offset = 2 * PAGE_SIZE

\* C9: a response with an embedded error object is a failed attempt: it
\* never ends the pagination as an empty page would and none of its features
\* is accumulated; the page is requested again, or the date candidate is
\* abandoned for the year candidate, or the category ends as a fetch failure
\* with an empty file.
C9_ErrorBodyIsFailure ==
    [][ ( /\ pc = "request" /\ last_resp'.kind = "body" /\ last_resp'.error )
          => /\ pc' # "fetched"
             /\ \/ /\ pc' = "request" /\ attempt < MAX_RETRIES
                   /\ all_features' = all_features /\ strategy' = strategy
                   /\ offset' = offset /\ attempt' = attempt + 1
                   /\ requests' # <<>> /\ requests'[Len(requests')].res = "fail"
                   /\ ended' = ended /\ files' = files
                \/ /\ pc' = "request" /\ attempt = MAX_RETRIES
                   /\ strategy = "date" /\ strategy' = "year"
                   /\ all_features' = <<>> /\ prev_call'.res = "fail"
                   /\ ended' = ended /\ files' = files
                \/ /\ pc' = "main" /\ attempt = MAX_RETRIES
                   /\ strategy = "year"
                   /\ ended' = [ended EXCEPT ![ENDPOINTS[cat]] = "fetch_error"]
                   /\ files'[ENDPOINTS[cat]].records = <<>>
      ]_vars

\* C9's case: a body with an error object and a feature arrived after
\* features had been accumulated, and the page is about to be retried.
C9_Witness ==
    /\ pc = "request"
    /\ last_resp.kind = "body"
    /\ last_resp.error
    /\ last_resp.features # <<>>
    /\ all_features # <<>>
    /\ attempt > 1
    /\ \A i \in 1..Len(all_features) : all_features[i].src = strategy

\* The linear combination that orders records by (year, month).
YearMonth(r) == r.year * 12 + r.month

\* C16 as claimed: every record of a written file has a (year, month) no
\* earlier than TIME_WINDOW_MONTHS months before the latest (year, month) of
\* that file.
C16_WithinWindow ==
    \A c \in Categories :
        \A i, j \in 1..Len(files[c].records) :
            YearMonth(files[c].records[i])
                >= YearMonth(files[c].records[j]) - TIME_WINDOW_MONTHS

\* C17 as claimed: pagination stops after an empty page, and after a page
\* whose exceededTransferLimit is false or that holds fewer than PAGE_SIZE
\* records.
C17_StopsOnNoMoreData ==
    [][ ( /\ pc = "request" /\ IsData(last_resp')
          /\ \/ last_resp'.features = <<>>
             \/ ~last_resp'.exceeded
             \/ Len(last_resp'.features) < PAGE_SIZE )
          => pc' = "fetched"
      ]_vars

\* C19: the accumulated features all come from the candidate being
\* queried, so what fetch_features returns comes from one candidate; right
\* after the date candidate is abandoned nothing is accumulated and the
\* offset is 0.
C19_SingleCandidate ==
    /\ pc \in {"request", "fetched"} =>
          \A i \in 1..Len(all_features) : all_features[i].src = strategy
    /\ (pc = "request" /\ prev_call.res = "fail") =>
          /\ strategy = "year" /\ prev_call.where = "date"
          /\ all_features = <<>> /\ offset = 0

\* C19's case: the date candidate failed after a page had been accumulated,
\* and the year candidate's pagination has ended with features.
C19_Witness ==
    /\ pc = "fetched"
    /\ strategy = "year"
    /\ prev_call.where = "date"
    /\ prev_call.res = "fail"
    /\ prev_call.offset = PAGE_SIZE
    /\ all_features # <<>>

\* C20: the year candidate is queried only after a request of the date
\* candidate raised, and at most once in a category; a date candidate whose
\* pagination completes is followed by no other candidate, and its result,
\* even empty, is what the category sorts, transforms and writes.
C20_YearOnlyAfterDateError ==
    [][ /\ (pc' = "request" /\ strategy' = "year" /\ strategy = "date")
           => /\ pc = "request" /\ Failed(last_resp')
              /\ tried = <<"date">> /\ tried' = <<"date", "year">>
        /\ (pc = "request" /\ strategy = "year" /\ pc' # "main")
           => strategy' = "year" /\ tried' = tried
        /\ (pc = "request" /\ strategy = "date" /\ IsData(last_resp'))
           => strategy' = "date" /\ tried' = tried
        /\ (pc = "fetched" /\ strategy = "date")
           => /\ pc' = "main" /\ tried' = <<"date">>
              /\ LET c   == ENDPOINTS[cat]
                     res == process_features(SortFeatures(all_features), c,
                                             now_year)
                 IN  IF SortRaises(all_features) \/ res.raised
                     THEN files'[c] = [written |-> TRUE, records |-> <<>>]
                     ELSE files'[c] = [written |-> TRUE,
                                       records |-> res.clean_records]
      ]_vars

\* C20's case: the date candidate's pagination has completed without an
\* error and with zero features.
C20_Witness ==
    /\ pc = "fetched"
    /\ strategy = "date"
    /\ tried = <<"date">>
    /\ last_resp.kind = "body"
    /\ all_features = <<>>

=============================================================================
